---- MODULE Spec2Model ----
(***************************************************************************)
(* Model of spotify-mcp's SSE server tool handlers (src/src/sse-server.py) *)
(* and of its SSE client (src/src/sse_client.py).                          *)
(*                                                                         *)
(* Python values are records [t, s, l]: t is the type tag, s the string    *)
(* (or decimal) payload, l the list payload.  A text is a sequence of      *)
(* tokens (words); an f-string is the concatenation of its tokens.         *)
(***************************************************************************)
EXTENDS Integers, Sequences, FiniteSets, TLC

VARIABLES
    srvCall,      \* server: the tool call being dispatched (tool, arguments, backend outcome)
    srvRet,       \* server: the text the handler returned
    srvFault,     \* server: TRUE iff an exception left the handler
    srvBackend,   \* server: the spotify_client operations invoked by the handler, in order
    pc,           \* process_query: where the run is; at the end "returned" (line 197),
                  \* "failed" (line 199) or "raised" (an exception left process_query)
    user_query,   \* process_query: its argument
    messages,     \* process_query: the conversation
    available_tools, \* process_query: the tool manifest built from list_tools
    resp,         \* process_query: response.choices of the first completion, which the loop iterates
    ci,           \* process_query: index of the current choice
    ti,           \* process_query: index of the current tool call of that choice
    final_text,   \* process_query: the list of texts to return
    ret,          \* process_query: the returned text
    events,       \* history: the calls made to the completion service and to call_tool
    responses,    \* history: response.choices of every completion call that returned
    mpc,          \* main: where main() is
    streams_context, \* main: client._streams_context: "unset", "created", "entered",
                  \* "exited" (its __aexit__ returned) or "exit_raised" (its __aexit__ raised)
    session_context, \* main: client._session_context, likewise
    connected,    \* main: TRUE iff connect_to_sse_server returned normally
    menu,         \* main: the choice typed at the menu
    test_i,       \* main: test_all_tools: the number of test_tool calls made in this run of it
    test_ret,     \* main: test_all_tools: what the last test_tool returned
    after_tests,  \* main: where test_all_tools returns to
    chats,        \* main: chat_loop: the number of lines read
    session_ops,  \* history: the requests issued on the session, in order
    exits,        \* history: the __aexit__ calls made by cleanup, in order
    cleanups,     \* history: the number of times cleanup was entered
    exc,          \* main: TRUE iff an exception is propagating out of main's try block
    initialized,  \* history: TRUE iff session.initialize() has returned normally
    test_log,     \* history: the test_tool calls of the current run of test_all_tools
    loop_owner,   \* server event loop: the session whose task occupies the loop thread, or "none"
    handler,      \* server event loop: per session, where its tool-call task is
    inbox,        \* server event loop: per session, the posted messages not yet accepted
    handled,      \* history: per session, the tool calls answered
    cl_owner,     \* client event loop: the task that occupies the loop thread, or "none"
    cl_query,     \* client event loop: where the process_query task is
    cl_unread,    \* client event loop: the stream events not yet read by the session's reader
    cl_rounds     \* history: the completion calls process_query has made

srvVars == <<srvCall, srvRet, srvFault, srvBackend>>

pqVars == <<pc, user_query, messages, available_tools, resp, ci, ti, final_text, ret, events,
            responses>>

mainVars == <<mpc, streams_context, session_context, connected, menu, test_i, test_ret,
              after_tests, chats, session_ops, exits, cleanups, exc, initialized,
              test_log>>

loopVars == <<loop_owner, handler, inbox, handled, cl_owner, cl_query, cl_unread, cl_rounds>>

vars == <<srvVars, pqVars, mainVars, loopVars>>

-----------------------------------------------------------------------------
\* Python values

None == [t |-> "none", s |-> "", l |-> <<>>]

Str(x) == [t |-> "str", s |-> x, l |-> <<>>]

Num(x) == [t |-> "int", s |-> x, l |-> <<>>]

List(q) == [t |-> "list", s |-> "", l |-> q]

Dict(q) == [t |-> "dict", s |-> "", l |-> q]

\* Python truth value: None, "", 0, [] and {} are false
Truthy(v) ==
    CASE v.t = "none" -> FALSE
      [] v.t = "str"  -> v.s # ""
      [] v.t = "int"  -> v.s # "0"
      [] v.t = "list" -> v.l # <<>>
      [] v.t = "dict" -> v.l # <<>>

\* str(v) as one token
PyStr(v) ==
    CASE v.t = "none" -> "None"
      [] v.t = "str"  -> v.s
      [] v.t = "int"  -> v.s
      [] v.t = "list" -> "[..]"
      [] v.t = "dict" -> "{..}"

Range(q) == {q[i] : i \in DOMAIN q}

-----------------------------------------------------------------------------
\* Record shapes.  Every field name belongs to one shape.

\* what a backend operation does: returns val, or raises an exception with message msg
Outcome(r, v, m) == [raises |-> r, val |-> v, msg |-> m]

\* a backend operation invoked by a handler
BackendCall(o, a) == [op |-> o, args |-> a]

\* What the body of a handler's try block produced: a returned text or a raised
\* exception (with its message), and the backend operations invoked on the way.
Returned(txt, cs) == [raised |-> FALSE, text |-> txt, exc |-> <<>>, calls |-> cs]

Raised(m, cs) == [raised |-> TRUE, text |-> <<>>, exc |-> m, calls |-> cs]

\* the result of json.loads: decoded is FALSE on JSONDecodeError
Decoded(v) == [decoded |-> TRUE, value |-> v]

DecodeError == [decoded |-> FALSE, value |-> None]

\* the keyword arguments of the five tools, None where a tool has no such parameter
NoArgs ==
    [spotify_uri |-> None, num_skips |-> None, query |-> None, qtype |-> None,
     limit |-> None, track_id |-> None, item_uri |-> None, playlist_id |-> None,
     track_ids |-> None, name |-> None, description |-> None]

\* a tool call at the server, with what the backend will do if it is invoked
ToolCall(tl, act, a, o) == [tool |-> tl, action |-> act, arguments |-> a, outcome |-> o]

\* a conversation turn
Turn(r, c) == [role |-> r, content |-> c]

\* tool_call.function of a completion response: the tool's name and its arguments as JSON text
ToolUse(n, a) == [fname |-> n, json_args |-> a]

\* one element of response.choices: message.content and message.tool_calls
Choice(c, tcs) == [msg_content |-> c, tool_calls |-> tcs]

\* what completion(...) does: raises (fails, with error) or returns a response with these choices
Completion(f, e, cs) == [fails |-> f, error |-> e, choices |-> cs]

\* what session.call_tool does: raises, or returns a result whose content is a list of
\* items; an item has a text attribute or not
ContentItem(h, x) == [has_text |-> h, body |-> x]

CallOutcome(f, e, its) == [call_fails |-> f, call_error |-> e, items |-> its]

\* a call that is sent the conversation without its first turn
EventSentTail(k, m, w, u) ==
    [ev |-> k, sent |-> IF m = <<>> THEN m ELSE Tail(m), with_tools |-> w, use |-> u]

\* a call that is never passed tools=
EventNoTools(k, m, w, u) == [ev |-> k, sent |-> m, with_tools |-> FALSE, use |-> u]

\* a call made by process_query: ev is "gen" (completion), "call" (call_tool), or
\* either with "_failed" when the call raised; sent is the messages argument,
\* with_tools tells whether tools= was passed, use is the tool call dispatched
Event(k, m, w, u) == [ev |-> k, sent |-> m, with_tools |-> w, use |-> u]

\* an __aexit__ call made by cleanup: on which context, the state the context was in,
\* and whether the call raised
ExitCall(c, b, r) == [ctx |-> c, before |-> b, exit_raises |-> r]

\* a test_tool call of test_all_tools: the tool it tested, and whether call_tool raised
TestRun(n, r) == [test_name |-> n, test_raised |-> r]

-----------------------------------------------------------------------------
\* json.dumps(v, indent=2): the JSON text of v
json_dumps(v) ==
    CASE v.t = "none" -> <<"null">>
      [] v.t = "str"  -> <<"\"", v.s, "\"">>
      [] v.t = "int"  -> <<v.s>>
      [] v.t = "list" -> <<"[">> \o v.l \o <<"]">>
      [] v.t = "dict" -> <<"{">> \o v.l \o <<"}">>

\* json.loads(s) on the texts the model feeds it: the decoded value, or JSONDecodeError
json_loads(s) ==
    CASE s = "[\"t1\",\"t2\"]" -> Decoded(List(<<"t1", "t2">>))
      [] s = "[]"              -> Decoded(List(<<>>))
      [] s = "5"               -> Decoded(Num("5"))
      [] s = "null"            -> Decoded(None)
      [] s = "{\"a\":1}"       -> Decoded(Dict(<<"a">>))
      [] s = "\"t1\""          -> Decoded(Str("t1"))
      [] s = "{\"action\":\"get\"}" -> Decoded(Dict(<<"action">>))
      [] OTHER                 -> DecodeError

-----------------------------------------------------------------------------
\* The backend (spotify_client): each operation returns a value or raises

ErrMsgs == {<<"timeout">>, <<"401", "Unauthorized">>}

BackendData == {None, Dict(<<"name">>), Dict(<<>>)}

BackendOutcomes ==
    {Outcome(FALSE, d, <<>>) : d \in BackendData}
    \cup {Outcome(TRUE, None, m) : m \in ErrMsgs}

\* every backend invocation directed to one operation
InvokeGetQueue(op, args, out, text) ==
    IF out.raises
    THEN Raised(out.msg, <<BackendCall("get_queue", args)>>)
    ELSE Returned(text, <<BackendCall("get_queue", args)>>)

\* Invoke backend operation op: its exception leaves the body, otherwise the body
\* goes on to return text
Invoke(op, args, out, text) ==
    IF out.raises
    THEN Raised(out.msg, <<BackendCall(op, args)>>)
    ELSE Returned(text, <<BackendCall(op, args)>>)

\* a handler without its except clause: the exception leaves the handler
ExceptErrorMissing(r) == r

\* except Exception as e: return f"Error: {str(e)}"
ExceptError(r) ==
    IF r.raised
    THEN Returned(<<"Error:">> \o r.exc, r.calls)
    ELSE r

-----------------------------------------------------------------------------
\* The tool handlers of sse-server.py.  out is what the backend operation does
\* if the handler invokes one.

playbackBody(action, spotify_uri, num_skips, out) ==
    CASE action = "get" ->
           IF out.raises
           THEN Raised(out.msg, <<BackendCall("get_current_track", <<>>)>>)
           ELSE IF Truthy(out.val)
                THEN Returned(json_dumps(out.val), <<BackendCall("get_current_track", <<>>)>>)
                ELSE Returned(<<"No", "track", "playing.">>,
                              <<BackendCall("get_current_track", <<>>)>>)
      [] action = "start" ->
           Invoke("start_playback", <<spotify_uri>>, out, <<"Playback", "starting.">>)
      [] action = "pause" ->
           Invoke("pause_playback", <<>>, out, <<"Playback", "paused.">>)
      [] action = "skip" ->
           Invoke("skip_track", <<num_skips>>, out, <<"Skipped", "to", "next", "track.">>)
      [] OTHER ->
           Returned(<<"Unknown", "action:", action, "Supported", "actions", "are:",
                      "get", "start", "pause", "skip">>, <<>>)

playback(action, spotify_uri, num_skips, out) ==
    ExceptError(playbackBody(action, spotify_uri, num_skips, out))

searchBody(query, qtype, limit, out) ==
    Invoke("search", <<query, qtype, limit>>, out, json_dumps(out.val))

search(query, qtype, limit, out) ==
    ExceptError(searchBody(query, qtype, limit, out))

\* queue without the track_id check of the add branch
queueBodyUnchecked(action, track_id, out) ==
    CASE action = "add" ->
           Invoke("add_to_queue", <<track_id>>, out, <<"Track", "added", "to", "queue.">>)
      [] action = "get" ->
           Invoke("get_queue", <<>>, out, json_dumps(out.val))
      [] OTHER ->
           Returned(<<"Unknown", "queue", "action:", action, "Supported", "actions", "are:",
                      "add", "get">>, <<>>)

queueBody(action, track_id, out) ==
    CASE action = "add" ->
           IF ~Truthy(track_id)
           THEN Returned(<<"track_id", "is", "required", "for", "add", "action">>, <<>>)
           ELSE Invoke("add_to_queue", <<track_id>>, out, <<"Track", "added", "to", "queue.">>)
      [] action = "get" ->
           Invoke("get_queue", <<>>, out, json_dumps(out.val))
      [] OTHER ->
           Returned(<<"Unknown", "queue", "action:", action, "Supported", "actions", "are:",
                      "add", "get">>, <<>>)

\* queue with every unrecognised action handled as "get"
queueDefaultGet(action, track_id, out) ==
    ExceptError(queueBody(IF action = "add" THEN "add" ELSE "get", track_id, out))

queue(action, track_id, out) ==
    ExceptError(queueBody(action, track_id, out))

get_infoBody(item_uri, out) ==
    Invoke("get_info", <<item_uri>>, out, json_dumps(out.val))

get_info(item_uri, out) ==
    ExceptError(get_infoBody(item_uri, out))

\* track_ids forwarded as received, without json.loads
DecodeTrackIdsRaw(track_ids) == Decoded(track_ids)

\* track_ids_list = json.loads(track_ids) if isinstance(track_ids, str) else track_ids
DecodeTrackIds(track_ids) ==
    IF track_ids.t = "str"
    THEN json_loads(track_ids.s)
    ELSE Decoded(track_ids)

\* the add_tracks / remove_tracks branches: they differ in the backend operation and the texts
EditTracks(verb, op, done, playlist_id, track_ids, out) ==
    IF ~Truthy(playlist_id) \/ ~Truthy(track_ids)
    THEN Returned(<<"playlist_id", "and", "track_ids", "are", "required", "for",
                    verb, "action.">>, <<>>)
    ELSE IF ~DecodeTrackIds(track_ids).decoded
         THEN Returned(<<"Error:", "track_ids", "must", "be", "a", "valid", "JSON",
                         "array.">>, <<>>)
         ELSE Invoke(op, <<playlist_id, DecodeTrackIds(track_ids).value>>, out, done)

ChangeDetails(playlist_id, name, description, out) ==
    IF ~Truthy(playlist_id)
    THEN Returned(<<"playlist_id", "is", "required", "for", "change_details",
                    "action.">>, <<>>)
    ELSE IF ~Truthy(name) /\ ~Truthy(description)
         THEN Returned(<<"At", "least", "one", "of", "name", "or", "description",
                         "is", "required.">>, <<>>)
         ELSE Invoke("change_playlist_details", <<playlist_id, name, description>>, out,
                     <<"Playlist", "details", "changed.">>)

playlistBody(action, playlist_id, track_ids, name, description, out) ==
    CASE action = "get" ->
           Invoke("get_current_user_playlists", <<>>, out, json_dumps(out.val))
      [] action = "get_tracks" ->
           IF ~Truthy(playlist_id)
           THEN Returned(<<"playlist_id", "is", "required", "for", "get_tracks",
                           "action.">>, <<>>)
           ELSE Invoke("get_playlist_tracks", <<playlist_id>>, out, json_dumps(out.val))
      [] action = "add_tracks" ->
           EditTracks("add_tracks", "add_tracks_to_playlist",
                      <<"Tracks", "added", "to", "playlist.">>, playlist_id, track_ids, out)
      [] action = "remove_tracks" ->
           EditTracks("remove_tracks", "remove_tracks_from_playlist",
                      <<"Tracks", "removed", "from", "playlist.">>, playlist_id, track_ids, out)
      [] action = "change_details" ->
           ChangeDetails(playlist_id, name, description, out)
      [] OTHER ->
           Returned(<<"Unknown", "playlist", "action:", action, "Supported", "actions",
                      "are:", "get", "get_tracks", "add_tracks", "remove_tracks",
                      "change_details">>, <<>>)

playlist(action, playlist_id, track_ids, name, description, out) ==
    ExceptError(playlistBody(action, playlist_id, track_ids, name, description, out))

-----------------------------------------------------------------------------
\* Tool calls arriving at the server

OptStr(x) == {None, Str(""), Str(x)}

PlaybackActions == {"get", "start", "pause", "skip", "rewind"}

QueueActions == {"add", "get", "clear"}

PlaylistActions == {"get", "get_tracks", "add_tracks", "remove_tracks", "change_details",
                    "delete"}

TrackIdsValues ==
    {None, Str(""), Str("[\"t1\",\"t2\"]"), Str("[]"), Str("not-json"), Str("5"),
     Str("null"), Str("{\"a\":1}"), Str("\"t1\""), List(<<"t1">>)}

NoOutcome == Outcome(FALSE, None, <<>>)

\* the handler ran on call and produced r
Dispatched(call, r) ==
    /\ srvCall' = call
    /\ srvRet' = r.text
    /\ srvFault' = r.raised
    /\ srvBackend' = r.calls
    /\ UNCHANGED <<pqVars, mainVars, loopVars>>

Playback ==
    /\ srvCall.tool = ""
    /\ \E action \in PlaybackActions, spotify_uri \in {None, Str("spotify:track:1")},
          num_skips \in {Num("1"), Num("2")}, out \in BackendOutcomes :
        Dispatched(ToolCall("playback", action,
                            [NoArgs EXCEPT !.spotify_uri = spotify_uri, !.num_skips = num_skips],
                            out),
                   playback(action, spotify_uri, num_skips, out))

Search ==
    /\ srvCall.tool = ""
    /\ \E query \in {Str(""), Str("Bohemian")}, qtype \in {Str("track"), Str("album")},
          limit \in {Num("10"), Num("5")}, out \in BackendOutcomes :
        Dispatched(ToolCall("search", "",
                            [NoArgs EXCEPT !.query = query, !.qtype = qtype, !.limit = limit],
                            out),
                   search(query, qtype, limit, out))

Queue ==
    /\ srvCall.tool = ""
    /\ \E action \in QueueActions, track_id \in OptStr("t1"), out \in BackendOutcomes :
        Dispatched(ToolCall("queue", action, [NoArgs EXCEPT !.track_id = track_id], out),
                   queue(action, track_id, out))

GetInfo ==
    /\ srvCall.tool = ""
    /\ \E item_uri \in {Str(""), Str("spotify:track:1")}, out \in BackendOutcomes :
        Dispatched(ToolCall("get_info", "", [NoArgs EXCEPT !.item_uri = item_uri], out),
                   get_info(item_uri, out))

Playlist ==
    /\ srvCall.tool = ""
    /\ \E action \in PlaylistActions, playlist_id \in OptStr("p1"),
          track_ids \in TrackIdsValues, name \in OptStr("n"), description \in OptStr("d"),
          out \in BackendOutcomes :
        Dispatched(ToolCall("playlist", action,
                            [NoArgs EXCEPT !.playlist_id = playlist_id,
                                           !.track_ids = track_ids, !.name = name,
                                           !.description = description],
                            out),
                   playlist(action, playlist_id, track_ids, name, description, out))

SrvInit ==
    /\ srvCall = ToolCall("", "", NoArgs, NoOutcome)
    /\ srvRet = <<>>
    /\ srvFault = FALSE
    /\ srvBackend = <<>>

\* the result is handed to the transport and the server waits for the next call
Respond ==
    /\ srvCall.tool # ""
    /\ srvCall' = ToolCall("", "", NoArgs, NoOutcome)
    /\ srvRet' = <<>>
    /\ srvFault' = FALSE
    /\ srvBackend' = <<>>
    /\ UNCHANGED <<pqVars, mainVars, loopVars>>

SrvNext ==
    \/ Respond
    \/ Playback
    \/ Search
    \/ Queue
    \/ GetInfo
    \/ Playlist

-----------------------------------------------------------------------------
\* SpotifyMCPClient.process_query (sse_client.py)

\* the most tool calls one completion response requests (over all its choices)
MaxCalls == 2

NoUse == ToolUse("", "")

\* the tool calls a completion response may request; the last has malformed arguments
ToolUses ==
    {ToolUse("playback", "{\"action\":\"get\"}"), ToolUse("queue", "{\"action\":\"get\"}"),
     ToolUse("search", "{bad")}

RECURSIVE SeqsUpTo(_, _)
\* the sequences over S of length at most n
SeqsUpTo(S, n) ==
    IF n = 0
    THEN {<<>>}
    ELSE LET shorter == SeqsUpTo(S, n - 1)
         IN  shorter \cup {Append(q, x) : q \in {r \in shorter : Len(r) = n - 1}, x \in S}

\* response.choices of the first completion: one or two choices, each with a content
\* (None or a text) and a list of tool calls
FirstResponses ==
    LET choices == {Choice(c, tcs) : c \in {None, Str("A")}, tcs \in SeqsUpTo(ToolUses, MaxCalls)}
    IN  {<<a>> : a \in choices}
        \cup {<<a, b>> \in choices \X choices : Len(a.tool_calls) + Len(b.tool_calls) <= MaxCalls}

\* response.choices of a completion made after a tool call
FollowResponses ==
    {<<>>,
     <<Choice(Str("B"), <<>>)>>,
     <<Choice(None, <<ToolUse("playback", "{\"action\":\"get\"}")>>)>>,
     <<Choice(Str("B"), <<ToolUse("queue", "{\"action\":\"get\"}")>>)>>}

CompletionOutcomes(rs) ==
    {Completion(FALSE, <<>>, r) : r \in rs} \cup {Completion(TRUE, <<"quota">>, <<>>)}

CallOutcomes ==
    {CallOutcome(TRUE, <<"timeout">>, <<>>),
     CallOutcome(FALSE, <<>>, <<ContentItem(TRUE, "ok")>>),
     CallOutcome(FALSE, <<>>, <<ContentItem(FALSE, "image")>>),
     CallOutcome(FALSE, <<>>, <<>>)}

\* the text extracted from the MCP result: content[0].text, str(content[0]) or str(content)
ToolResponseText(its) ==
    IF its # <<>>
    THEN IF its[1].has_text THEN its[1].body ELSE "str(" \o its[1].body \o ")"
    ELSE "[]"

\* f"[Calling tool {tool_name} with args {tool_args}]"
CallingMarker(use) ==
    <<"[Calling", "tool", use.fname, "with", "args",
      PyStr(json_loads(use.json_args).value), "]">>

RECURSIVE Join(_), JoinNoNewline(_)
\* "".join(texts)
JoinNoNewline(texts) ==
    IF texts = <<>> THEN <<>> ELSE texts[1] \o JoinNoNewline(Tail(texts))

\* "\n".join(texts)
Join(texts) ==
    IF texts = <<>>
    THEN <<>>
    ELSE IF Len(texts) = 1
         THEN texts[1]
         ELSE texts[1] \o <<"\n">> \o Join(Tail(texts))

\* final_text.append(c) without the test
AppendAlways(texts, c) == Append(texts, <<PyStr(c)>>)

\* final_text.append(c) under `if c:`
AppendIfContent(texts, c) == IF Truthy(c) THEN Append(texts, <<c.s>>) ELSE texts

\* content or ""
OrEmpty(c) == IF Truthy(c) THEN c.s ELSE ""

\* an error text without its prefix
ErrorTextBare(m) == m

\* f"Error processing query: {str(e)}"
ErrorText(m) == <<"Error", "processing", "query:">> \o m

\* a try block without its except clause: the exception leaves process_query
ReturnErrorMissing(m) ==
    /\ ret' = ret
    /\ pc' = "raised"

\* except Exception as e: return f"Error processing query: {str(e)}"
ReturnError(m) ==
    /\ ret' = ErrorText(m)
    /\ pc' = "failed"

\* the tool calls of a choice taken last first
CurrentUseReversed == resp[ci].tool_calls[Len(resp[ci].tool_calls) + 1 - ti]

\* for tool_call in message.tool_calls: the tool call the loop is at
CurrentUse == resp[ci].tool_calls[ti]

\* a loop that does not advance
AdvanceToolStuck(i) == i

\* a loop that passes over every other tool call
AdvanceToolSkip(i) == i + 2

\* for tool_call in message.tool_calls: on to the next tool call
AdvanceTool(i) == i + 1

PqInit ==
    /\ pc = "start"
    /\ user_query \in {"play something", "what is playing"}
    /\ messages = <<>>
    /\ available_tools = <<>>
    /\ resp = <<>>
    /\ ci = 0
    /\ ti = 0
    /\ final_text = <<>>
    /\ ret = <<>>
    /\ events = <<>>
    /\ responses = <<>>

\* lines 122-137: seed the conversation, build the manifest from list_tools (outside try)
StartQuery ==
    /\ pc = "start"
    /\ messages' = <<Turn("user", user_query)>>
    /\ \E ok \in BOOLEAN :
         IF ok
         THEN /\ available_tools' = <<"playback", "search", "queue", "get_info", "playlist">>
              /\ pc' = "generate"
         ELSE /\ available_tools' = <<>>
              /\ pc' = "raised"
    /\ UNCHANGED <<user_query, resp, ci, ti, final_text, ret, events, responses>>
    /\ UNCHANGED <<srvVars, mainVars, loopVars>>

\* lines 141-150: the initial completion call, with tools=available_tools
Generate ==
    /\ pc = "generate"
    /\ \E out \in CompletionOutcomes(FirstResponses) :
         IF out.fails
         THEN /\ events' = Append(events, Event("gen_failed", messages, TRUE, NoUse))
              /\ ReturnError(out.error)
              /\ UNCHANGED <<resp, ci, responses>>
         ELSE /\ events' = Append(events, Event("gen", messages, TRUE, NoUse))
              /\ resp' = out.choices
              /\ responses' = Append(responses, out.choices)
              /\ ci' = 1
              /\ pc' = "choice"
              /\ ret' = ret
    /\ UNCHANGED <<user_query, messages, available_tools, ti, final_text>>
    /\ UNCHANGED <<srvVars, mainVars, loopVars>>

\* lines 152-157: the next choice of the first response; its content goes to final_text
EnterChoice ==
    /\ pc = "choice"
    /\ ci <= Len(resp)
    /\ final_text' = AppendIfContent(final_text, resp[ci].msg_content)
    /\ ti' = 1
    /\ pc' = "tool"
    /\ UNCHANGED <<user_query, messages, available_tools, resp, ci, ret, events, responses>>
    /\ UNCHANGED <<srvVars, mainVars, loopVars>>

\* a loop over the tool calls that may stop one short
NextChoiceEarly ==
    /\ pc = "tool"
    /\ ti >= Len(resp[ci].tool_calls)
    /\ ci' = ci + 1
    /\ pc' = "choice"
    /\ UNCHANGED <<user_query, messages, available_tools, resp, ti, final_text, ret, events,
                   responses>>
    /\ UNCHANGED <<srvVars, mainVars, loopVars>>

\* line 158: the tool calls of this choice are exhausted
NextChoice ==
    /\ pc = "tool"
    /\ ti > Len(resp[ci].tool_calls)
    /\ ci' = ci + 1
    /\ pc' = "choice"
    /\ UNCHANGED <<user_query, messages, available_tools, resp, ti, final_text, ret, events,
                   responses>>
    /\ UNCHANGED <<srvVars, mainVars, loopVars>>

\* lines 159-185: decode the arguments, call the tool, record the marker and the two turns
CallTool ==
    /\ pc = "tool"
    /\ ti <= Len(resp[ci].tool_calls)
    /\ LET use == CurrentUse
       IN  IF ~json_loads(use.json_args).decoded
           THEN /\ ReturnError(<<"Expecting", "value">>)
                /\ UNCHANGED <<messages, final_text, events>>
           ELSE \E out \in CallOutcomes :
                  IF out.call_fails
                  THEN /\ events' = Append(events, Event("call_failed", <<>>, FALSE, use))
                       /\ ReturnError(out.call_error)
                       /\ UNCHANGED <<messages, final_text>>
                  ELSE /\ events' = Append(events, Event("call", <<>>, FALSE, use))
                       /\ final_text' = Append(final_text, CallingMarker(use))
                       /\ messages' = messages
                                      \o <<Turn("assistant", OrEmpty(resp[ci].msg_content)),
                                           Turn("user", ToolResponseText(out.items))>>
                       /\ pc' = "followup"
                       /\ ret' = ret
    /\ UNCHANGED <<user_query, available_tools, resp, ci, ti, responses>>
    /\ UNCHANGED <<srvVars, mainVars, loopVars>>

\* lines 187-195: the completion call after a tool call, without tools=; the content of
\* its first choice goes to final_text
FollowUp ==
    /\ pc = "followup"
    /\ \E out \in CompletionOutcomes(FollowResponses) :
         IF out.fails
         THEN /\ events' = Append(events, Event("gen_failed", messages, FALSE, NoUse))
              /\ ReturnError(out.error)
              /\ UNCHANGED <<ti, final_text, responses>>
         ELSE /\ events' = Append(events, Event("gen", messages, FALSE, NoUse))
              /\ responses' = Append(responses, out.choices)
              /\ final_text' = IF out.choices # <<>>
                               THEN AppendIfContent(final_text, out.choices[1].msg_content)
                               ELSE final_text
              /\ ti' = AdvanceTool(ti)
              /\ pc' = "tool"
              /\ ret' = ret
    /\ UNCHANGED <<user_query, messages, available_tools, resp, ci>>
    /\ UNCHANGED <<srvVars, mainVars, loopVars>>

\* line 197: return "\n".join(final_text)
ReturnFinal ==
    /\ pc = "choice"
    /\ ci > Len(resp)
    /\ ret' = Join(final_text)
    /\ pc' = "returned"
    /\ UNCHANGED <<user_query, messages, available_tools, resp, ci, ti, final_text, events,
                   responses>>
    /\ UNCHANGED <<srvVars, mainVars, loopVars>>

PqNext ==
    \/ StartQuery
    \/ Generate
    \/ EnterChoice
    \/ NextChoice
    \/ CallTool
    \/ FollowUp
    \/ ReturnFinal

-----------------------------------------------------------------------------
\* main, connect_to_sse_server, cleanup, test_all_tools and chat_loop (sse_client.py)

\* the most lines chat_loop reads before the user quits
MaxChats == 2

\* the tool calls of test_all_tools, in the order of lines 85-113
TestCalls ==
    <<"playback(get)", "playback(pause)", "playback(start)", "search", "queue(get)",
      "get_info", "playlist(get)">>

MainIdle ==
    /\ mpc = "off"
    /\ streams_context = "unset"
    /\ session_context = "unset"
    /\ connected = FALSE
    /\ menu = ""
    /\ test_i = 0
    /\ test_ret = <<>>
    /\ after_tests = ""
    /\ chats = 0
    /\ session_ops = <<>>
    /\ exits = <<>>
    /\ cleanups = 0
    /\ exc = FALSE
    /\ initialized = FALSE
    /\ test_log = <<>>

\* line 230: client = SpotifyMCPClient(); no context attribute exists yet
MainInit ==
    /\ mpc = "open_stream"
    /\ streams_context = "unset"
    /\ session_context = "unset"
    /\ connected = FALSE
    /\ menu = ""
    /\ test_i = 0
    /\ test_ret = <<>>
    /\ after_tests = ""
    /\ chats = 0
    /\ session_ops = <<>>
    /\ exits = <<>>
    /\ cleanups = 0
    /\ exc = FALSE
    /\ initialized = FALSE
    /\ test_log = <<>>

\* an exception leaves the try block of main: control goes to the finally clause
Throw ==
    /\ mpc' = "cleanup"
    /\ exc' = TRUE

\* lines 28-29: create the stream context and enter it
OpenStream ==
    /\ mpc = "open_stream"
    /\ \E ok \in BOOLEAN :
         IF ok
         THEN /\ streams_context' = "entered"
              /\ mpc' = "open_session"
              /\ exc' = exc
         ELSE /\ streams_context' = "created"
              /\ Throw
    /\ UNCHANGED <<session_context, connected, menu, test_i, test_ret, after_tests, chats,
                   session_ops, exits, cleanups>>
    /\ UNCHANGED <<initialized, test_log, srvVars, pqVars, loopVars>>

\* lines 31-32: create the session context and enter it
OpenSession ==
    /\ mpc = "open_session"
    /\ \E ok \in BOOLEAN :
         IF ok
         THEN /\ session_context' = "entered"
              /\ mpc' = "initialize"
              /\ exc' = exc
         ELSE /\ session_context' = "created"
              /\ Throw
    /\ UNCHANGED <<streams_context, connected, menu, test_i, test_ret, after_tests, chats,
                   session_ops, exits, cleanups>>
    /\ UNCHANGED <<initialized, test_log, srvVars, pqVars, loopVars>>

\* session.initialize() with its exception swallowed
InitializeUnchecked ==
    /\ mpc = "initialize"
    /\ session_ops' = Append(session_ops, "initialize")
    /\ \E ok \in BOOLEAN : initialized' = ok
    /\ mpc' = "list_tools"
    /\ UNCHANGED <<streams_context, session_context, connected, menu, test_i, test_ret,
                   after_tests, chats, exits, cleanups, exc>>
    /\ UNCHANGED <<test_log, srvVars, pqVars, loopVars>>

\* line 35: await self.session.initialize()
Initialize ==
    /\ mpc = "initialize"
    /\ session_ops' = Append(session_ops, "initialize")
    /\ \E ok \in BOOLEAN :
         /\ initialized' = ok
         /\ IF ok
            THEN /\ mpc' = "list_tools"
                 /\ exc' = exc
            ELSE Throw
    /\ UNCHANGED <<streams_context, session_context, connected, menu, test_i, test_ret,
                   after_tests, chats, exits, cleanups>>
    /\ UNCHANGED <<test_log, srvVars, pqVars, loopVars>>

\* lines 40-42: list the tools; connect_to_sse_server returns
ListTools ==
    /\ mpc = "list_tools"
    /\ session_ops' = Append(session_ops, "list_tools")
    /\ \E ok \in BOOLEAN :
         IF ok
         THEN /\ mpc' = "menu"
              /\ connected' = TRUE
              /\ exc' = exc
         ELSE /\ connected' = connected
              /\ Throw
    /\ UNCHANGED <<streams_context, session_context, menu, test_i, test_ret, after_tests,
                   chats, exits, cleanups>>
    /\ UNCHANGED <<initialized, test_log, srvVars, pqVars, loopVars>>

\* lines 240-251: read the choice and start what it selects; input() may raise
Menu ==
    /\ mpc = "menu"
    /\ \/ \E c \in {"1", "2", "3", "other"} :
            /\ menu' = c
            /\ IF c = "2"
               THEN mpc' = "chat" /\ after_tests' = after_tests
               ELSE mpc' = "tests" /\ after_tests' = (IF c = "3" THEN "chat" ELSE "cleanup")
            /\ exc' = exc
       \/ /\ Throw
          /\ UNCHANGED <<menu, after_tests>>
    /\ test_i' = 0
    /\ test_log' = <<>>
    /\ UNCHANGED <<streams_context, session_context, connected, test_ret, chats, session_ops,
                   exits, cleanups>>
    /\ UNCHANGED <<initialized, srvVars, pqVars, loopVars>>

\* lines 57-70: the try block of test_tool
test_toolBody(out) ==
    IF out.call_fails
    THEN Raised(out.call_error, <<>>)
    ELSE Returned(<<ToolResponseText(out.items)>>, <<>>)

\* test_tool without its except clause
test_toolUncaught(out) == test_toolBody(out)

\* lines 51-74: test_tool; except Exception as e: return f"Error: {str(e)}"
test_tool(out) ==
    IF test_toolBody(out).raised
    THEN Returned(<<"Error:">> \o test_toolBody(out).exc, <<>>)
    ELSE test_toolBody(out)

\* lines 85-113: the next test_tool call of test_all_tools; lines 117-118: an exception
\* leaving test_tool is caught by test_all_tools, which prints it and returns
TestTool ==
    /\ mpc = "tests"
    /\ test_i < Len(TestCalls)
    /\ session_ops' = Append(session_ops, TestCalls[test_i + 1])
    /\ test_i' = test_i + 1
    /\ \E out \in CallOutcomes :
         /\ test_log' = Append(test_log, TestRun(TestCalls[test_i + 1], out.call_fails))
         /\ IF test_tool(out).raised
            THEN /\ mpc' = after_tests
                 /\ test_ret' = test_ret
            ELSE /\ mpc' = mpc
                 /\ test_ret' = test_tool(out).text
    /\ UNCHANGED <<streams_context, session_context, connected, menu, after_tests, chats,
                   exits, cleanups, exc>>
    /\ UNCHANGED <<initialized, srvVars, pqVars, loopVars>>

\* line 115: test_all_tools returns to its caller
TestsDone ==
    /\ mpc = "tests"
    /\ test_i = Len(TestCalls)
    /\ mpc' = after_tests
    /\ UNCHANGED <<streams_context, session_context, connected, menu, test_i, test_ret,
                   after_tests, chats, session_ops, exits, cleanups, exc>>
    /\ UNCHANGED <<initialized, test_log, srvVars, pqVars, loopVars>>

\* lines 207-221: one line of chat_loop: quit, test, or a query handed to process_query
\* (which lists the tools and may call some); an Exception raised inside is printed
Chat ==
    /\ mpc = "chat"
    /\ \/ /\ mpc' = "cleanup"
          /\ UNCHANGED <<test_i, test_log, after_tests, chats, session_ops>>
       \/ /\ chats < MaxChats
          /\ chats' = chats + 1
          /\ mpc' = "tests"
          /\ after_tests' = "chat"
          /\ test_i' = 0
          /\ test_log' = <<>>
          /\ UNCHANGED session_ops
       \/ /\ chats < MaxChats
          /\ chats' = chats + 1
          /\ \E ops \in {<<"list_tools">>, <<"list_tools", "call_tool">>} :
                session_ops' = session_ops \o ops
          /\ UNCHANGED <<mpc, test_i, test_log, after_tests>>
    /\ UNCHANGED <<streams_context, session_context, connected, menu, test_ret, exits,
                   cleanups, exc>>
    /\ UNCHANGED <<initialized, srvVars, pqVars, loopVars>>

\* an exception that `except Exception` does not catch (KeyboardInterrupt, cancellation)
\* is raised while the self-test or the chat loop runs
Interrupt ==
    /\ mpc \in {"tests", "chat"}
    /\ Throw
    /\ UNCHANGED <<streams_context, session_context, connected, menu, test_i, test_ret,
                   after_tests, chats, session_ops, exits, cleanups>>
    /\ UNCHANGED <<initialized, test_log, srvVars, pqVars, loopVars>>

\* lines 253-254 and 46-47: the finally clause enters cleanup, which exits the session
\* context if the attribute is set; an exception of __aexit__ leaves cleanup
CleanupSession ==
    /\ mpc = "cleanup"
    /\ cleanups' = cleanups + 1
    /\ IF session_context # "unset"
       THEN \E ok \in BOOLEAN :
              /\ exits' = Append(exits, ExitCall("session", session_context, ~ok))
              /\ session_context' = IF ok THEN "exited" ELSE "exit_raised"
              /\ mpc' = IF ok THEN "cleanup_streams" ELSE "ended"
              /\ exc' = IF ok THEN exc ELSE TRUE
       ELSE /\ mpc' = "cleanup_streams"
            /\ UNCHANGED <<exits, session_context, exc>>
    /\ UNCHANGED <<streams_context, connected, menu, test_i, test_ret, after_tests, chats,
                   session_ops>>
    /\ UNCHANGED <<initialized, test_log, srvVars, pqVars, loopVars>>

\* lines 48-49: cleanup exits the stream context if the attribute is set; main ends
CleanupStreams ==
    /\ mpc = "cleanup_streams"
    /\ mpc' = "ended"
    /\ IF streams_context # "unset"
       THEN \E ok \in BOOLEAN :
              /\ exits' = Append(exits, ExitCall("streams", streams_context, ~ok))
              /\ streams_context' = IF ok THEN "exited" ELSE "exit_raised"
              /\ exc' = IF ok THEN exc ELSE TRUE
       ELSE UNCHANGED <<exits, streams_context, exc>>
    /\ UNCHANGED <<session_context, connected, menu, test_i, test_ret, after_tests, chats,
                   session_ops, cleanups>>
    /\ UNCHANGED <<initialized, test_log, srvVars, pqVars, loopVars>>

MainNext ==
    \/ OpenStream
    \/ OpenSession
    \/ Initialize
    \/ ListTools
    \/ Menu
    \/ TestTool
    \/ TestsDone
    \/ Chat
    \/ Interrupt
    \/ CleanupSession
    \/ CleanupStreams

-----------------------------------------------------------------------------
\* The event loops: uvicorn runs every session's tasks of the server on one asyncio loop
\* thread (sse-server.py), asyncio.run(main()) runs the client's tasks on another
\* (sse_client.py). A task gives up the thread only at an await.

\* the sessions connected to the server
Sessions == {"s1", "s2"}

\* the most messages a session posts
MaxPosts == 2

\* the most stream events the server sends the client, and the most completion calls
MaxUnread == 2

LoopIdle ==
    /\ loop_owner = "none"
    /\ handler = [s \in Sessions |-> "idle"]
    /\ inbox = [s \in Sessions |-> 0]
    /\ handled = [s \in Sessions |-> 0]
    /\ cl_owner = "none"
    /\ cl_query = "idle"
    /\ cl_unread = 0
    /\ cl_rounds = 0

\* a session's client posts a tools/call message: it waits at the server's socket
Arrive(s) ==
    /\ inbox[s] + handled[s] < MaxPosts
    /\ inbox' = [inbox EXCEPT ![s] = @ + 1]
    /\ UNCHANGED <<loop_owner, handler, handled, cl_owner, cl_query, cl_unread, cl_rounds>>
    /\ UNCHANGED <<srvVars, pqVars, mainVars>>

\* lines 204-221: the loop runs sse.handle_post_message for the session and passes the
\* message to the session's mcp_server.run task
Accept(s) ==
    /\ loop_owner = "none"
    /\ inbox[s] > 0
    /\ handler[s] = "idle"
    /\ inbox' = [inbox EXCEPT ![s] = @ - 1]
    /\ handler' = [handler EXCEPT ![s] = "posted"]
    /\ UNCHANGED <<loop_owner, handled, cl_owner, cl_query, cl_unread, cl_rounds>>
    /\ UNCHANGED <<srvVars, pqVars, mainVars>>

\* lines 41-52 (likewise 80-84, 97-107, 119-123, 131-144): the loop runs the tool
\* handler up to its spotify_client call, a plain call with no await: the thread is
\* inside the call until it returns
StartHandler(s) ==
    /\ loop_owner = "none"
    /\ handler[s] = "posted"
    /\ loop_owner' = s
    /\ handler' = [handler EXCEPT ![s] = "in_backend"]
    /\ UNCHANGED <<inbox, handled, cl_owner, cl_query, cl_unread, cl_rounds>>
    /\ UNCHANGED <<srvVars, pqVars, mainVars>>

\* lines 52-76: the spotify_client call returns or raises, the handler returns its text;
\* the task next awaits the write of the reply and so gives up the thread
BackendReturns(s) ==
    /\ handler[s] = "in_backend"
    /\ loop_owner' = "none"
    /\ handler' = [handler EXCEPT ![s] = "replying"]
    /\ UNCHANGED <<inbox, handled, cl_owner, cl_query, cl_unread, cl_rounds>>
    /\ UNCHANGED <<srvVars, pqVars, mainVars>>

\* lines 204-214: the loop writes the reply to the session's stream
Reply(s) ==
    /\ loop_owner = "none"
    /\ handler[s] = "replying"
    /\ handler' = [handler EXCEPT ![s] = "idle"]
    /\ handled' = [handled EXCEPT ![s] = @ + 1]
    /\ UNCHANGED <<loop_owner, inbox, cl_owner, cl_query, cl_unread, cl_rounds>>
    /\ UNCHANGED <<srvVars, pqVars, mainVars>>

\* the server sends an event on the client's stream: it waits at the client's socket
StreamEvent ==
    /\ cl_unread < MaxUnread
    /\ cl_unread' = cl_unread + 1
    /\ UNCHANGED <<loop_owner, handler, inbox, handled, cl_owner, cl_query, cl_rounds>>
    /\ UNCHANGED <<srvVars, pqVars, mainVars>>

\* sse_client.py lines 28-32: the reader tasks started by the two __aenter__ calls read
\* an event when the loop runs them
ReadEvent ==
    /\ cl_owner = "none"
    /\ cl_unread > 0
    /\ cl_unread' = cl_unread - 1
    /\ UNCHANGED <<loop_owner, handler, inbox, handled, cl_owner, cl_query, cl_rounds>>
    /\ UNCHANGED <<srvVars, pqVars, mainVars>>

\* sse_client.py lines 141-146 and 188-192: process_query calls litellm's completion(),
\* a plain call with no await: the thread is inside the call until it returns
BeginCompletion ==
    /\ cl_owner = "none"
    /\ cl_query \in {"idle", "tool_returned"}
    /\ cl_rounds < MaxUnread
    /\ cl_owner' = "query"
    /\ cl_query' = "in_completion"
    /\ cl_rounds' = cl_rounds + 1
    /\ UNCHANGED <<loop_owner, handler, inbox, handled, cl_unread>>
    /\ UNCHANGED <<srvVars, pqVars, mainVars>>

\* sse_client.py lines 152-163 and 197: completion() returns; process_query goes on to
\* `await self.session.call_tool(...)`, where it gives up the thread, or returns
CompletionReturns ==
    /\ cl_query = "in_completion"
    /\ cl_owner' = "none"
    /\ \E next \in {"awaiting_tool", "returned"} : cl_query' = next
    /\ UNCHANGED <<loop_owner, handler, inbox, handled, cl_unread, cl_rounds>>
    /\ UNCHANGED <<srvVars, pqVars, mainVars>>

\* sse_client.py line 163: the tool result arrives and the loop resumes process_query
ToolReturns ==
    /\ cl_owner = "none"
    /\ cl_query = "awaiting_tool"
    /\ cl_query' = "tool_returned"
    /\ UNCHANGED <<loop_owner, handler, inbox, handled, cl_owner, cl_unread, cl_rounds>>
    /\ UNCHANGED <<srvVars, pqVars, mainVars>>

LoopNext ==
    \/ \E s \in Sessions : Arrive(s)
    \/ \E s \in Sessions : Accept(s)
    \/ \E s \in Sessions : StartHandler(s)
    \/ \E s \in Sessions : BackendReturns(s)
    \/ \E s \in Sessions : Reply(s)
    \/ StreamEvent
    \/ ReadEvent
    \/ BeginCompletion
    \/ CompletionReturns
    \/ ToolReturns

-----------------------------------------------------------------------------
\* Specifications

\* the tool handlers alone: the client does not run
DispatchInit ==
    /\ SrvInit
    /\ pc = "off"
    /\ user_query = ""
    /\ messages = <<>>
    /\ available_tools = <<>>
    /\ resp = <<>>
    /\ ci = 0
    /\ ti = 0
    /\ final_text = <<>>
    /\ ret = <<>>
    /\ events = <<>>
    /\ responses = <<>>
    /\ MainIdle
    /\ LoopIdle

SpecDispatch == DispatchInit /\ [][SrvNext]_vars

\* one run of process_query against an arbitrary completion service and session
QueryInit == PqInit /\ SrvInit /\ MainIdle /\ LoopIdle

SpecQuery == QueryInit /\ [][PqNext]_vars

\* the same run, in which every external call returns or raises and the code goes on
SpecQueryFair == SpecQuery /\ WF_vars(PqNext)

\* the process_query variables while process_query is not modelled step by step
PqIdle ==
    /\ pc = "off"
    /\ user_query = ""
    /\ messages = <<>>
    /\ available_tools = <<>>
    /\ resp = <<>>
    /\ ci = 0
    /\ ti = 0
    /\ final_text = <<>>
    /\ ret = <<>>
    /\ events = <<>>
    /\ responses = <<>>

\* main starts: no handler and no process_query is running
MainStart == MainInit /\ SrvInit /\ PqIdle /\ LoopIdle

\* one run of main
SpecMain == MainStart /\ [][MainNext]_vars

\* both event loops start with nothing to run
LoopInit == LoopIdle /\ SrvInit /\ PqIdle /\ MainIdle

\* the server's loop serving its sessions, and the client's loop running process_query
SpecLoop == LoopInit /\ [][LoopNext]_vars

-----------------------------------------------------------------------------
\* Properties of the tool handlers (checked under SpecDispatch)

\* The groups of required arguments that call c lacks: each group is a set of
\* argument names that are required together and are all missing (None or empty).
MissingGroups(c) ==
    LET a == c.arguments
        lacks(v, g) == IF Truthy(v) THEN {} ELSE {g}
    IN  CASE c.tool = "queue" /\ c.action = "add" -> lacks(a.track_id, {"track_id"})
          [] c.tool = "playlist" /\ c.action = "get_tracks" ->
               lacks(a.playlist_id, {"playlist_id"})
          [] c.tool = "playlist" /\ c.action \in {"add_tracks", "remove_tracks"} ->
               lacks(a.playlist_id, {"playlist_id"}) \cup lacks(a.track_ids, {"track_ids"})
          [] c.tool = "playlist" /\ c.action = "change_details" ->
               lacks(a.playlist_id, {"playlist_id"})
               \cup (IF Truthy(a.name) \/ Truthy(a.description)
                     THEN {}
                     ELSE {{"name", "description"}})
          [] OTHER -> {}

BackendRaised == srvBackend # <<>> /\ srvCall.outcome.raises

\* C2: whatever the tool, the action, the arguments and the backend's behaviour, the
\* handler returns a text and no exception leaves it; when the backend operation
\* raises, the text is "Error: " followed by the exception's message.
C2_HandlerNeverRaises ==
    srvCall.tool # ""
        => /\ ~srvFault
           /\ srvRet # <<>>
           /\ BackendRaised => srvRet = <<"Error:">> \o srvCall.outcome.msg

\* C2 witness: a playlist call whose backend operation raised was answered "Error: ..."
C2_Witness ==
    /\ srvCall.tool = "playlist"
    /\ BackendRaised
    /\ srvRet = <<"Error:", "401", "Unauthorized">>
    /\ ~srvFault

-----------------------------------------------------------------------------
\* Properties of process_query (checked under SpecQuery)

RECURSIVE FlatCalls(_)
\* the tool calls a response requests, in the order it lists them (choice by choice)
FlatCalls(choices) ==
    IF choices = <<>> THEN <<>> ELSE choices[1].tool_calls \o FlatCalls(Tail(choices))

RECURSIVE Requested(_)
\* the tool calls requested by the responses rs, in order
Requested(rs) == IF rs = <<>> THEN <<>> ELSE FlatCalls(rs[1]) \o Requested(Tail(rs))

IsCall(e) == e.ev \in {"call", "call_failed"}

IsGen(e) == e.ev \in {"gen", "gen_failed"}

RECURSIVE UsesOf(_)
\* the tool calls sent to call_tool, in order
UsesOf(es) ==
    IF es = <<>>
    THEN <<>>
    ELSE (IF IsCall(es[1]) THEN <<es[1].use>> ELSE <<>>) \o UsesOf(Tail(es))

DispatchedUses == UsesOf(events)

Count(q, x) == Cardinality({i \in DOMAIN q : q[i] = x})

IsPrefix(p, q) == Len(p) <= Len(q) /\ SubSeq(q, 1, Len(p)) = p

NumCalls == Cardinality({i \in DOMAIN events : IsCall(events[i])})

NumGens == Cardinality({i \in DOMAIN events : IsGen(events[i])})

\* C3 as stated: process_query returns its answer only after a response that requested
\* no tool call, every tool call requested by any response having been dispatched
\* exactly once.
C3_Original ==
    pc = "returned"
        => /\ FlatCalls(responses[Len(responses)]) = <<>>
           /\ \A u \in ToolUses : Count(DispatchedUses, u) = Count(Requested(responses), u)

\* C3 amended: only the tool calls of the FIRST response are dispatched, each exactly
\* once and in order; process_query returns after the completion that follows the last
\* of them (or after the first completion when there is none), whatever that response
\* requests; tool calls requested by later responses are never dispatched.
C3_FirstResponseCallsDispatchedOnce ==
    /\ responses # <<>> => IsPrefix(DispatchedUses, FlatCalls(responses[1]))
    /\ responses = <<>> => DispatchedUses = <<>>
    /\ pc = "returned"
         => /\ DispatchedUses = FlatCalls(responses[1])
            /\ events[Len(events)].ev = "gen"
            /\ Len(responses) = 1 + Len(FlatCalls(responses[1]))

\* C3 witness: the run returned although its last response requested a tool call
C3_Witness ==
    /\ pc = "returned"
    /\ Len(responses) = 3
    /\ FlatCalls(responses[3]) # <<>>
    /\ Len(DispatchedUses) = 2

\* C4 as stated: tool calls go to call_tool in the order listed, and a later completion
\* call is made only after all tool calls of the response have been dispatched.
C4_Original ==
    /\ responses # <<>> => IsPrefix(DispatchedUses, FlatCalls(responses[1]))
    /\ \A i \in DOMAIN events :
         (i > 1 /\ IsGen(events[i]))
             => Len(UsesOf(SubSeq(events, 1, i))) = Len(FlatCalls(responses[1]))

\* C4 amended: tool calls go to call_tool one at a time in the order the first response
\* lists them, and a completion call is made after EACH tool call, before the next tool
\* call is dispatched: calls to the completion service and to call_tool alternate.
C4_OrderedCallsAlternateWithGenerate ==
    /\ responses # <<>> => IsPrefix(DispatchedUses, FlatCalls(responses[1]))
    /\ \A i \in DOMAIN events :
         /\ i = 1 => IsGen(events[i])
         /\ (i > 1 /\ IsCall(events[i])) => events[i - 1].ev = "gen"
         /\ (i > 1 /\ IsGen(events[i])) => events[i - 1].ev = "call"

\* C4 witness: two different tool calls of one response, a completion call between them
C4_Witness ==
    /\ Len(events) >= 4
    /\ events[2].ev = "call" /\ events[3].ev = "gen" /\ events[4].ev = "call"
    /\ events[2].use # events[4].use
    /\ Len(resp) = 1

\* the text of a failure as a tool result would carry it
HasErrorTurn == \E i \in DOMAIN messages : messages[i].content = "timeout"

\* C5 as stated: a call_tool failure becomes a tool-result turn carrying the error
\* text, and the loop goes on to the next completion call.
C5_Original ==
    (events # <<>> /\ events[Len(events)].ev = "call_failed")
        => /\ pc = "followup"
           /\ HasErrorTurn

\* C5 amended: a call_tool failure ends the run: no turn is appended for it, no further
\* completion or tool call is made, and process_query returns "Error processing query: "
\* followed by the failure's message (no exception leaves process_query).
C5_ToolFailureEndsRun ==
    \A i \in DOMAIN events :
        events[i].ev = "call_failed"
            => /\ i = Len(events)
               /\ pc = "failed"
               /\ ret = <<"Error", "processing", "query:", "timeout">>
               /\ Len(messages) = 1 + 2 * Cardinality({j \in DOMAIN events : events[j].ev = "call"})
               /\ ~HasErrorTurn

\* C5 witness: the second tool call of a run failed
C5_Witness ==
    /\ Len(events) = 4
    /\ events[2].ev = "call"
    /\ events[4].ev = "call_failed"
    /\ pc = "failed"

\* C6: a completion call that fails, the first or a later one, ends the run at once with
\* an error text: it is the last call of the run (no retry, no further completion or tool
\* call), and no exception leaves process_query.
C6_GenerateFailureEndsRun ==
    \A i \in DOMAIN events :
        events[i].ev = "gen_failed"
            => /\ i = Len(events)
               /\ pc = "failed"
               /\ ret = <<"Error", "processing", "query:", "quota">>

\* C6 witness: the completion call after a tool call failed
C6_Witness ==
    /\ Len(events) = 3
    /\ events[2].ev = "call"
    /\ events[3].ev = "gen_failed"
    /\ pc = "failed"

RECURSIVE Lines(_)
\* texts joined by newlines
Lines(texts) ==
    IF texts = <<>>
    THEN <<>>
    ELSE IF Len(texts) = 1 THEN texts[1] ELSE texts[1] \o <<"\n">> \o Lines(Tail(texts))

RECURSIVE Concat(_)
Concat(texts) == IF texts = <<>> THEN <<>> ELSE texts[1] \o Concat(Tail(texts))

\* the free text of a message, as a list of at most one text
FreeText(c) == IF c.t = "str" /\ c.s # "" THEN <<(<<c.s>>)>> ELSE <<>>

RECURSIVE ContentsOf(_)
\* the free texts of the choices cs, in order
ContentsOf(cs) ==
    IF cs = <<>> THEN <<>> ELSE FreeText(cs[1].msg_content) \o ContentsOf(Tail(cs))

RECURSIVE AllContents(_)
\* the free texts produced by the completion service in the responses rs, in order
AllContents(rs) == IF rs = <<>> THEN <<>> ELSE ContentsOf(rs[1]) \o AllContents(Tail(rs))

\* text without its newline separators
Unlined(text) == SelectSeq(text, LAMBDA w : w # "\n")

\* C7 as stated: the answer of a run without failure is the concatenation, in order, of
\* the free texts the completion service produced in all its responses, and nothing else
\* (the separating newlines are not counted against it).
C7_Original == pc = "returned" => Unlined(ret) = Concat(AllContents(responses))

\* "[Calling tool <name> with args <args>]"
MarkerFor(u) ==
    <<"[Calling", "tool", u.fname, "with", "args",
      (IF u.json_args = "{\"action\":\"get\"}" THEN "{..}" ELSE "?"), "]">>

RECURSIVE ToolTexts(_, _, _)
\* for the tool calls us, the k-th of the run first: the marker of each, then the free
\* text of the first choice of the response that followed it
ToolTexts(us, k, rs) ==
    IF us = <<>>
    THEN <<>>
    ELSE <<MarkerFor(us[1])>>
         \o (IF rs[k + 1] = <<>> THEN <<>> ELSE FreeText(rs[k + 1][1].msg_content))
         \o ToolTexts(Tail(us), k + 1, rs)

RECURSIVE AnswerTexts(_, _, _)
\* for the choices cs of the first response, k tool calls having gone before
AnswerTexts(cs, k, rs) ==
    IF cs = <<>>
    THEN <<>>
    ELSE FreeText(cs[1].msg_content)
         \o ToolTexts(cs[1].tool_calls, k, rs)
         \o AnswerTexts(Tail(cs), k + Len(cs[1].tool_calls), rs)

\* C7 amended: the answer of a run without failure is the newline-joined list, in
\* order, of: the free text of each choice of the first response and, for each tool call
\* of that choice, the marker "[Calling tool <name> with args <args>]" followed by the
\* free text of the first choice of the completion made after that tool call.
C7_AnswerIsTextsAndMarkers ==
    pc = "returned" => ret = Lines(AnswerTexts(responses[1], 1, responses))

\* C7 witness: an answer with a free text, a marker and a follow-up text
C7_Witness ==
    /\ pc = "returned"
    /\ ret = <<"A", "\n", "[Calling", "tool", "queue", "with", "args", "{..}", "]", "\n", "B">>

\* C8: when the first response requests no tool call, the run makes that one completion
\* call and no tool call, leaves the conversation at the user's turn, does not fail, and
\* returns the response's text.
C8_NoToolCallsOneGenerate ==
    (responses # <<>> /\ FlatCalls(responses[1]) = <<>>)
        => /\ Len(events) = 1
           /\ events[1].ev = "gen"
           /\ messages = <<Turn("user", user_query)>>
           /\ pc \in {"choice", "tool", "returned"}
           /\ pc = "returned" => ret = Lines(ContentsOf(responses[1]))

\* C8 witness: such a run returned the text of a response of two choices
C8_Witness ==
    /\ pc = "returned"
    /\ NumCalls = 0
    /\ ret = <<"A", "\n", "A">>

\* C9: when the first response requests exactly one tool call and the second none, the
\* run makes one call_tool between two completion calls and nothing more, and appends
\* one tool-result turn (after the assistant's turn) to the conversation.
C9_OneToolCallTwoGenerates ==
    (Len(responses) >= 2 /\ Len(FlatCalls(responses[1])) = 1
     /\ FlatCalls(responses[2]) = <<>>)
        => /\ [i \in DOMAIN events |-> events[i].ev] = <<"gen", "call", "gen">>
           /\ Len(responses) = 2
           /\ Len(messages) = 3
           /\ messages[1] = Turn("user", user_query)
           /\ messages[2].role = "assistant"
           /\ messages[3].role = "user"
           /\ pc \in {"choice", "tool", "returned"}

\* C9 witness: such a run returned
C9_Witness ==
    /\ pc = "returned"
    /\ Len(responses) = 2
    /\ FlatCalls(responses[2]) = <<>>
    /\ NumCalls = 1
    /\ messages[3].content = "ok"

-----------------------------------------------------------------------------
\* Properties of main (SpecMain)

\* the contexts on which cleanup called __aexit__
Exited == {exits[i].ctx : i \in 1..Len(exits)}

\* C10: once main has ended after a successful connect_to_sse_server, cleanup was
\* entered exactly once and it called __aexit__ on both the session context and the
\* stream context, also when one of the two __aexit__ calls raised.
C10_CleanupReleasesBoth ==
    (mpc = "ended" /\ connected) => (cleanups = 1 /\ Exited = {"session", "streams"})

\* the positions of session_ops at which the handshake request was issued
Handshakes == {i \in 1..Len(session_ops) : session_ops[i] = "initialize"}

\* C11: the handshake is the first request on the session and is issued once, with the
\* stream and the session context entered; every later request (list_tools or a tool
\* call) is issued only after initialize() has returned normally, so a failed connect
\* is followed by no request; a successful connect has made exactly one handshake.
C11_HandshakeOnceBeforeRequests ==
    /\ [](connected => (initialized /\ Handshakes = {1}))
    /\ [][session_ops' # session_ops =>
            /\ IsPrefix(session_ops, session_ops')
            /\ streams_context = "entered"
            /\ session_context = "entered"
            /\ IF session_ops = <<>>
               THEN session_ops' = <<"initialize">>
               ELSE /\ initialized
                    /\ \A i \in (Len(session_ops) + 1)..Len(session_ops') :
                          session_ops'[i] # "initialize"]_vars

\* C11 witness: a run of main that made the handshake, listed the tools, ran the
\* self-test and a chat query with a tool call, and ended
C11_Witness ==
    /\ mpc = "ended"
    /\ connected
    /\ Len(session_ops) > Len(TestCalls) + 2
    /\ session_ops[Len(session_ops)] = "call_tool"

-----------------------------------------------------------------------------
\* Further properties of the tool handlers (SpecDispatch)

\* the handled call is playlist add_tracks or remove_tracks with a playlist_id
EditsTracks ==
    /\ srvCall.tool = "playlist"
    /\ srvCall.action \in {"add_tracks", "remove_tracks"}
    /\ Truthy(srvCall.arguments.playlist_id)

\* the backend operation of the track-editing actions
EditOp == IF srvCall.action = "add_tracks"
          THEN "add_tracks_to_playlist"
          ELSE "remove_tracks_from_playlist"

\* the array a JSON array text stands for
ArrayOf(s) ==
    CASE s = "[\"t1\",\"t2\"]" -> <<"t1", "t2">>
      [] s = "[]"              -> <<>>

DecodeErrorText == <<"Error:", "track_ids", "must", "be", "a", "valid", "JSON", "array.">>

\* C12: add_tracks / remove_tracks with a playlist_id and track_ids a string holding a
\* JSON array makes exactly one backend call, forwarding the decoded array; with
\* track_ids a string that is not valid JSON it returns the decode-error text and makes
\* no backend call.
C12_TrackIdsDecodedOrRejected ==
    (EditsTracks /\ srvCall.arguments.track_ids.t = "str") =>
        LET s == srvCall.arguments.track_ids.s
        IN  /\ s \in {"[\"t1\",\"t2\"]", "[]"} =>
                 srvBackend = <<BackendCall(EditOp, <<srvCall.arguments.playlist_id,
                                                      List(ArrayOf(s))>>)>>
            /\ s = "not-json" =>
                 /\ srvBackend = <<>>
                 /\ srvRet = DecodeErrorText
                 /\ ~srvFault

\* C12 witness: remove_tracks forwarded the two decoded track ids
C12_Witness ==
    /\ EditsTracks
    /\ srvCall.action = "remove_tracks"
    /\ srvCall.arguments.track_ids = Str("[\"t1\",\"t2\"]")
    /\ Len(srvBackend) = 1
    /\ srvBackend[1].args[2] = List(<<"t1", "t2">>)
    /\ srvRet = <<"Tracks", "removed", "from", "playlist.">>

\* the actions each tool with an action argument supports
Supported(tl) ==
    CASE tl = "playback" -> {"get", "start", "pause", "skip"}
      [] tl = "queue"    -> {"add", "get"}
      [] tl = "playlist" -> {"get", "get_tracks", "add_tracks", "remove_tracks",
                             "change_details"}
      [] OTHER           -> {}

\* the handled call is to playback, queue or playlist with an action the tool lacks
UnknownAction ==
    /\ srvCall.tool \in {"playback", "queue", "playlist"}
    /\ srvCall.action \notin Supported(srvCall.tool)

\* the words of text after the word w (none when w does not occur)
After(text, w) ==
    {text[i] : i \in {j \in 1..Len(text) : \E k \in 1..(j - 1) : text[k] = w}}

\* C13: an action outside the tool's supported set is answered with a text that names
\* the action as unknown and lists exactly the supported actions of that tool; no
\* backend operation is invoked and no exception leaves the handler.
C13_UnknownActionListsSupported ==
    UnknownAction =>
        /\ "Unknown" \in Range(srvRet)
        /\ After(srvRet, "are:") = Supported(srvCall.tool)
        /\ srvBackend = <<>>
        /\ ~srvFault

\* C13 witness: playlist was called with the action "delete"
C13_Witness ==
    /\ UnknownAction
    /\ srvCall.tool = "playlist"
    /\ srvCall.action = "delete"
    /\ "change_details" \in Range(srvRet)

\* the handled call names a tool and, where the tool takes one, a supported action
Recognized ==
    \/ srvCall.tool \in {"search", "get_info"}
    \/ srvCall.tool \in {"playback", "queue", "playlist"}
         /\ srvCall.action \in Supported(srvCall.tool)

\* the backend operation that corresponds to a (tool, action) pair
OperationOf(tl, act) ==
    CASE tl = "playback" /\ act = "get"   -> "get_current_track"
      [] tl = "playback" /\ act = "start" -> "start_playback"
      [] tl = "playback" /\ act = "pause" -> "pause_playback"
      [] tl = "playback" /\ act = "skip"  -> "skip_track"
      [] tl = "search"                     -> "search"
      [] tl = "queue" /\ act = "add"      -> "add_to_queue"
      [] tl = "queue" /\ act = "get"      -> "get_queue"
      [] tl = "get_info"                   -> "get_info"
      [] tl = "playlist" /\ act = "get"            -> "get_current_user_playlists"
      [] tl = "playlist" /\ act = "get_tracks"     -> "get_playlist_tracks"
      [] tl = "playlist" /\ act = "add_tracks"     -> "add_tracks_to_playlist"
      [] tl = "playlist" /\ act = "remove_tracks"  -> "remove_tracks_from_playlist"
      [] tl = "playlist" /\ act = "change_details" -> "change_playlist_details"

\* exactly one backend operation was invoked, the one of the handled pair
InvokedItsOperation ==
    /\ Len(srvBackend) = 1
    /\ srvBackend[1].op = OperationOf(srvCall.tool, srvCall.action)

\* the handled call edits tracks and its track_ids is a string that is not JSON
MalformedTrackIds ==
    /\ EditsTracks
    /\ srvCall.arguments.track_ids = Str("not-json")

\* C14 as stated: a recognized pair with its required arguments present invokes
\* exactly one backend operation, the corresponding one; no dispatch invokes more
\* than one.
C14_Original ==
    /\ Len(srvBackend) <= 1
    /\ (Recognized /\ MissingGroups(srvCall) = {}) => InvokedItsOperation

\* C14 amended: as stated, except that add_tracks / remove_tracks with a track_ids
\* string that is not valid JSON invokes no backend operation although playlist_id
\* and track_ids are present.
C14_OneOperationPerWellFormedCall ==
    /\ Len(srvBackend) <= 1
    /\ (Recognized /\ MissingGroups(srvCall) = {} /\ ~MalformedTrackIds) =>
          InvokedItsOperation
    /\ MalformedTrackIds => srvBackend = <<>>

\* C14 witness: add_tracks with playlist_id and an undecodable track_ids: nothing invoked
C14_Witness ==
    /\ Recognized
    /\ MissingGroups(srvCall) = {}
    /\ srvCall.action = "add_tracks"
    /\ MalformedTrackIds
    /\ srvBackend = <<>>

\* the handled call edits tracks and its track_ids is a string that is valid JSON but
\* does not encode an array: a number, null, an object, a string
NonArrayTrackIds ==
    /\ EditsTracks
    /\ srvCall.arguments.track_ids \in {Str("5"), Str("null"), Str("{\"a\":1}"), Str("\"t1\"")}

\* C16: whenever add_tracks / remove_tracks invokes the backend, the forwarded
\* track_ids is an array; a track_ids string that is valid JSON but not an array is
\* answered with the 'track_ids must be a valid JSON array' text and no backend call.
C16_ForwardsOnlyArrays ==
    /\ (srvCall.tool = "playlist"
         /\ srvCall.action \in {"add_tracks", "remove_tracks"}
         /\ srvBackend # <<>>) => srvBackend[1].args[2].t = "list"
    /\ NonArrayTrackIds => (srvRet = DecodeErrorText /\ srvBackend = <<>>)

-----------------------------------------------------------------------------
\* Further properties of process_query (SpecQuery)

\* the completion calls made so far, as positions of events
GenAt == {i \in 1..Len(events) : IsGen(events[i])}

\* C15: once seeded, the conversation starts with the user turn holding the query and
\* only ever grows at its end; each completion call is sent the whole conversation as
\* it is at the call, so what one call is sent is a prefix of what a later call is sent.
C15_ConversationAppendOnly ==
    /\ [](pc # "start" =>
            /\ messages # <<>>
            /\ messages[1] = [role |-> "user", content |-> user_query])
    /\ [](\A i \in GenAt : \A j \in GenAt :
            i <= j => (IsPrefix(events[i].sent, events[j].sent)
                       /\ IsPrefix(events[j].sent, messages)))
    /\ [][/\ IsPrefix(messages, messages')
          /\ (Len(events') > Len(events) /\ IsGen(events'[Len(events')])) =>
                events'[Len(events')].sent = messages']_vars

\* C15 witness: three completion calls were sent 1, 3 and 5 turns
C15_Witness ==
    /\ pc = "returned"
    /\ Len(messages) = 5
    /\ {Len(events[i].sent) : i \in GenAt} = {1, 3, 5}

\* C17 as stated: every completion call of process_query, the follow-up calls
\* included, is given the full conversation and the tool manifest.
C17_Original ==
    \A i \in GenAt : events[i].with_tools /\ IsPrefix(events[i].sent, messages)

\* C17 amended: every completion call is given the full conversation; the manifest
\* built from list_tools is given to the first completion call only, and every
\* follow-up call (one after a tool call) is made without it. No completion call is
\* made before the manifest is built.
C17_ManifestOnFirstCallOnly ==
    /\ \A i \in GenAt :
          /\ IsPrefix(events[i].sent, messages)
          /\ events[i].with_tools <=> (i = 1)
    /\ GenAt # {} => (1 \in GenAt /\ available_tools # <<>>)

\* C17 witness: a follow-up completion call was made, without the manifest
C17_Witness ==
    /\ pc = "returned"
    /\ \E i \in GenAt : i > 1 /\ ~events[i].with_tools /\ Len(events[i].sent) = 3

-----------------------------------------------------------------------------
\* Properties of the event loops (SpecLoop)

\* C18: a handler's backend call and process_query's completion call are suspension
\* points: while a session's handler waits for its backend call, the loop can accept
\* another session's posted message, and while process_query waits for the completion
\* service, the loop can run the reader of the client's stream.
C18_CallsAreSuspensionPoints ==
    /\ \A s \in Sessions : \A t \in Sessions \ {s} :
          (handler[s] = "in_backend" /\ inbox[t] > 0 /\ handler[t] = "idle") =>
              ENABLED Accept(t)
    /\ (cl_query = "in_completion" /\ cl_unread > 0) => ENABLED ReadEvent

\* process_query has ended: it returned its answer, returned the error text, or an
\* exception of list_tools left it
Ended == pc \in {"returned", "failed", "raised"}

\* C19: process_query ends in every run in which each external call returns or raises,
\* and a run without failure has made exactly 1 + k completion calls and k tool calls,
\* k being the number of tool calls of the first response, whatever the later
\* responses held.
C19_TerminatesAfterKRounds ==
    /\ <>Ended
    /\ [](pc = "returned" =>
            LET k == Len(FlatCalls(responses[1]))
            IN  NumGens = 1 + k /\ NumCalls = k /\ Len(responses) = 1 + k)

\* C19 witness: a run with k = 2 returned although both later responses requested
\* tool calls
C19_Witness ==
    /\ pc = "returned"
    /\ Len(FlatCalls(responses[1])) = 2
    /\ NumCalls = 2
    /\ \A i \in 2..Len(responses) : FlatCalls(responses[i]) # <<>>

-----------------------------------------------------------------------------
\* Further properties of main (SpecMain)

\* the positions of exits at which __aexit__ was called on context c
ExitsOf(c) == {i \in 1..Len(exits) : exits[i].ctx = c}

\* C20: once main has ended, cleanup has called __aexit__ on exactly the contexts that
\* connect_to_sse_server had entered: never on a context that was created but not
\* entered, on every context that was entered, and on the session context before the
\* stream context when both were entered.
C20_ExitsExactlyEnteredContexts ==
    mpc = "ended" =>
        /\ \A i \in 1..Len(exits) : exits[i].before = "entered"
        /\ streams_context # "entered"
        /\ session_context # "entered"
        /\ \A i \in ExitsOf("session") : \A j \in ExitsOf("streams") : i < j

\* the tools tested so far in the current run of test_all_tools, in order
Tested(log) == [i \in 1..Len(log) |-> log[i].test_name]

\* C21: test_tool never raises: when call_tool raises, test_tool returns a text that
\* begins "Error:" followed by the exception's message, and the run of test_all_tools
\* goes on. The calls of a run are made in the order of TestCalls, none skipped, and a
\* run that returns has made all seven, whichever of them failed.
C21_TestToolNeverRaises ==
    /\ [](IsPrefix(Tested(test_log), TestCalls))
    /\ [][Len(test_log') > Len(test_log) =>
            /\ mpc' = "tests"
            /\ exc' = exc
            /\ test_log'[Len(test_log')].test_raised =>
                  (test_ret' # <<>> /\ test_ret'[1] = "Error:" /\ Len(test_ret') > 1)]_vars
    /\ [][(mpc = "tests" /\ mpc' # "tests" /\ exc' = exc) =>
            Tested(test_log') = TestCalls]_vars

\* C21 witness: a run of test_all_tools returned after its first and fourth calls had
\* failed
C21_Witness ==
    /\ mpc = "cleanup"
    /\ ~exc
    /\ Tested(test_log) = TestCalls
    /\ test_log[1].test_raised
    /\ test_log[4].test_raised
    /\ ~test_log[7].test_raised

====
